---- MODULE Spec2Model ----
(***************************************************************************)
(* A model of ddcc.py: one writer rank (WRITER_RANK) and SIZE-1 worker     *)
(* ranks.  The writer scatters the primary event ids and then runs         *)
(* write_loop; each worker correlates the ids of its share and sends one   *)
(* message per processed arrival, then StopIteration.                      *)
(*                                                                         *)
(* Messages between two ranks are delivered in the order sent (MPI is      *)
(* non-overtaking per sender/receiver pair); messages of different senders *)
(* interleave freely.  A standard-mode send completes while the receiver   *)
(* has buffer space for it (MaxInFlight messages per sender) and blocks    *)
(* otherwise.                                                              *)
(*                                                                         *)
(* Numbers are scaled to integers: coefficients are in tenths, sampling    *)
(* intervals and double differences in milliseconds.                       *)
(***************************************************************************)
EXTENDS Integers, Sequences, FiniteSets, TLC

\* ------------------------------------------------------------------ bounds
\* Number of MPI ranks of the run (one writer, SIZE-1 workers).
SIZE == 3
\* Messages of one sender the writer's side buffers before a send blocks.
MaxInFlight == 2
\* Interrupting signals delivered to one worker in a run (SpecSig only).
MaxSignals == 1
\* Rows added by one resize of the output datasets (1000 in ddcc.py:23).
OUTPUT_BLOCK_SIZE == 2

\* --------------------------------------------------------------- constants
WRITER_RANK == 0
Ranks == 0 .. (SIZE - 1)
Workers == {r \in Ranks : r # WRITER_RANK}

\* The configuration of the run (parse_config): corr_min in tenths.
cfg == [corr_min |-> 5, knn |-> 2]

\* -------------------------------------------------------------- input data
\* The event table of the catalog, in load order (the index is the id).
Catalog ==
  << [id |-> 2, lat |-> 0, lon |-> 0, depth |-> 0],
     [id |-> 3, lat |-> 1, lon |-> 0, depth |-> 0],
     [id |-> 1, lat |-> 0, lon |-> 0, depth |-> 0] >>

\* The phase table of the catalog, in load order (index = evid).
Picks ==
  << [evid |-> 3, sta |-> "STA", phase |-> "P", chan |-> "N", net |-> "XX"],
     [evid |-> 2, sta |-> "STD", phase |-> "P", chan |-> "Z", net |-> "XX"],
     [evid |-> 1, sta |-> "STA", phase |-> "P", chan |-> "Z", net |-> "XX"],
     [evid |-> 3, sta |-> "STB", phase |-> "S", chan |-> "Z", net |-> "XX"],
     [evid |-> 2, sta |-> "STD", phase |-> "P", chan |-> "N", net |-> "XX"],
     [evid |-> 1, sta |-> "STC", phase |-> "P", chan |-> "Z", net |-> "XX"],
     [evid |-> 3, sta |-> "STD", phase |-> "P", chan |-> "E", net |-> "XX"] >>

\* The waveform dataset: the traces stored under /References/event<evid>/
\* <net>/<sta>, in iteration order; delta is the sampling interval in ms.
Waveforms ==
  << [evid |-> 1, net |-> "XX", sta |-> "STA",
      traces |-> << [channel |-> "E", delta |-> 10],
                    [channel |-> "N", delta |-> 10],
                    [channel |-> "Z", delta |-> 10] >>],
     [evid |-> 3, net |-> "XX", sta |-> "STA",
      traces |-> << [channel |-> "Z", delta |-> 20],
                    [channel |-> "N", delta |-> 20],
                    [channel |-> "E", delta |-> 40] >>],
     [evid |-> 2, net |-> "XX", sta |-> "STB",
      traces |-> << [channel |-> "N", delta |-> 10],
                    [channel |-> "Z", delta |-> 10] >>],
     [evid |-> 3, net |-> "XX", sta |-> "STB",
      traces |-> << [channel |-> "Z", delta |-> 20] >>],
     [evid |-> 1, net |-> "XX", sta |-> "STC",
      traces |-> << [channel |-> "Z", delta |-> 10] >>],
     [evid |-> 3, net |-> "XX", sta |-> "STC",
      traces |-> << [channel |-> "Z", delta |-> 20] >>] >>

\* What the correlation primitive may return for one channel:
\* <<clag in samples, ccmax in tenths>>.
CorrOutcomes == { <<1, 7>>, <<2, -9>>, <<1, 3>> }

\* The --control argument: absent, or the "events" list of the control file.
NoControl == [given |-> FALSE, events |-> <<>>]
Controls ==
  { NoControl,
    [given |-> TRUE, events |-> <<4>>],
    [given |-> TRUE, events |-> <<3>>] }

\* ----------------------------------------------------------------- helpers
Abs(x) == IF x < 0 THEN -x ELSE x

Range(s) == { s[n] : n \in DOMAIN s }

\* The order of the strings that are compared when sorting.
StrOrder == << "P", "S", "STA", "STB", "STC", "STD" >>
StrRank(str) == CHOOSE n \in DOMAIN StrOrder : StrOrder[n] = str

\* ------------------------------------------------------- main: the catalog
\* df0_event after the optional control filter (df0_event.index.isin).
FilterEvents(control) ==
  IF control.given
  THEN SelectSeq(Catalog, LAMBDA e : e.id \in Range(control.events))
  ELSE Catalog

\* control_list: the control file's list as it is, else the catalog's index.
ControlList(control) ==
  IF control.given THEN control.events
  ELSE [n \in DOMAIN Catalog |-> Catalog[n].id]

SectionLen_floor(len, n, s) == len \div n

\* np.array_split(list, n): n contiguous sections, the first Len % n of them
\* one element longer than the others.
SectionLen(len, n, s) == (len \div n) + (IF s <= len % n THEN 1 ELSE 0)

RECURSIVE SectionStart(_, _, _)
SectionStart(len, n, s) ==
  IF s = 1 THEN 1 ELSE SectionStart(len, n, s - 1) + SectionLen(len, n, s - 1)

array_split(list, n) ==
  [s \in 1 .. n |->
     SubSeq(list, SectionStart(Len(list), n, s),
            SectionStart(Len(list), n, s) + SectionLen(Len(list), n, s) - 1)]

\* The worker ranks in the order of the zip of main, and the section each gets.
WorkerRanks == [s \in 1 .. (SIZE - 1) |-> IF s <= WRITER_RANK THEN s - 1 ELSE s]

\* ------------------------------------------------------------------ get_knn
\* The squared distance of get_knn, times 10^4 (111.11^2 * 10^4 = 11111^2).
Distance2(e, e0) ==
  ((e.lat - e0.lat) * (e.lat - e0.lat) + (e.lon - e0.lon) * (e.lon - e0.lon))
     * 11111 * 11111
  + (e.depth - e0.depth) * (e.depth - e0.depth) * 10000

HasEvent(evid, df_event) == \E n \in DOMAIN df_event : df_event[n].id = evid

\* The results sort_values("distance").iloc[:k+1] may give: the eligible rows
\* in an order of non-decreasing distance (the default sort is not stable, so
\* rows at equal distance come in any order), cut to k+1 rows.
get_knn(evid, df_event, k) ==
  LET e0   == df_event[CHOOSE n \in DOMAIN df_event : df_event[n].id = evid]
      df   == SelectSeq(df_event, LAMBDA e : e.id >= evid)
      dist == [n \in DOMAIN df |-> Distance2(df[n], e0)]
      m    == Len(df)
      ords == { f \in [1 .. m -> 1 .. m] :
                  /\ \A x, y \in 1 .. m : x # y => f[x] # f[y]
                  /\ \A x \in 1 .. (m - 1) : dist[f[x]] <= dist[f[x + 1]] }
      cut  == IF k + 1 < m THEN k + 1 ELSE m
  IN  { [n \in 1 .. cut |-> [id |-> df[f[n]].id, distance |-> dist[f[n]]]] :
        f \in ords }

\* --------------------------------------------------------------- get_phases
\* The key of a sort: "index" (the event id) or "sta,phase".
Key(by, r) ==
  IF by = "index"
  THEN r.evid
  ELSE StrRank(r.sta) * (Len(StrOrder) + 1) + StrRank(r.phase)

Less(by, r1, r2) == Key(by, r1) < Key(by, r2)

\* The rows v in sorted order; rows that compare equal keep their relative
\* order (the sort on several columns is a stable one).
SortRows(v, by) ==
  CHOOSE t \in
    { SubSeq([p \in DOMAIN v |-> v[CHOOSE n \in DOMAIN v : ps[n] = p]],
             1, Len(v)) :
        ps \in UNION { { SubSeq([n \in DOMAIN v |->
                                   1 + Cardinality({ m \in DOMAIN v :
                                         \/ ks[m] < ks[n]
                                         \/ (ks[m] = ks[n] /\ m < n) })],
                                1, Len(v)) } :
                       ks \in { SubSeq([n \in DOMAIN v |-> Key(by, v[n])],
                                       1, Len(v)) } } } : TRUE

StableSort(s, by) == CHOOSE t \in { SortRows(v, by) : v \in {s} } : TRUE

\* The orders sort_index() may give the rows at the positions left of v: its
\* default sort is not stable, so rows of equal index come in any order.
RECURSIVE IndexOrders(_, _)
IndexOrders(v, left) ==
  UNION { IF l = {} THEN { <<>> }
          ELSE UNION { { <<v[m]>> \o t : t \in IndexOrders(v, l \ {m}) } :
                       m \in { m \in l :
                                 \A m2 \in l : ~Less("index", v[m2], v[m]) } } :
          l \in {left} }

sort_index(df) == UNION { IndexOrders(v, DOMAIN v) : v \in {df} }

\* The tables get_phases may return: the rows of the given events, sorted by
\* index and then, keeping that order among equal rows, by (sta, phase).
get_phases(evids, df_phase) ==
  { StableSort(t, "sta,phase") :
      t \in sort_index(SelectSeq(df_phase, LAMBDA r : r.evid \in evids)) }

\* The rows of v that no earlier row equals in (sta, phase).
FirstRows(v) ==
  LET first(n) == \A m \in 1 .. (n - 1) :
                     ~(v[m].sta = v[n].sta /\ v[m].phase = v[n].phase)
      keep == { n \in DOMAIN v : first(n) }
  IN  SubSeq([p \in 1 .. Cardinality(keep) |->
                v[CHOOSE n \in keep : Cardinality({m \in keep : m < n}) = p - 1]],
             1, Cardinality(keep))

keep_all(df) == df

\* drop_duplicates(["sta", "phase"]): the first row of each (sta, phase).
drop_duplicates(df) == CHOOSE t \in { FirstRows(v) : v \in {df} } : TRUE

\* The tables __df_phase of correlate may be for the pair (evid0, evidB) of
\* the neighbours knn.
PairArrivals(knn, evid0, evidB) ==
  { drop_duplicates(_df_phase) :
      _df_phase \in UNION { get_phases({evid0, evidB}, df_phase) :
                              df_phase \in get_phases({ knn[n].id : n \in DOMAIN knn },
                                                      Picks) } }

\* ------------------------------------------------ get_waveforms_for_reference
HasWaveforms(evid, net, sta) ==
  \E n \in DOMAIN Waveforms :
     Waveforms[n].evid = evid /\ Waveforms[n].net = net /\ Waveforms[n].sta = sta

\* The stream of an event at a station (a KeyError when there is none).
get_waveforms_for_reference(evid, net, sta) ==
  Waveforms[CHOOSE n \in DOMAIN Waveforms :
               Waveforms[n].evid = evid /\ Waveforms[n].net = net
               /\ Waveforms[n].sta = sta].traces

\* stB.select(channel=...): the traces of the stream with that channel.
select(st, channel) == SelectSeq(st, LAMBDA tr : tr.channel = channel)

\* -------------------------------------------------------------------- state
VARIABLES
  control,     \* the --control argument of the run
  pc,          \* where each rank is in main
  shareChan,   \* per worker: the assignments sent to it and not yet received
  chan,        \* per worker: its messages to the writer not yet received
  data,        \* per worker: the share it received
  ii,          \* per worker: position in data of the id being correlated
  knn,         \* per worker: df_event of correlate (the neighbours of evid)
  jj,          \* per worker: position in df_event of the secondary event
  arrivals,    \* per worker: __df_phase of the pair
  aa,          \* per worker: position in __df_phase of the arrival
  cc,          \* per worker: position in st0 of the channel
  ddiff,       \* per worker: the list ddiff of the arrival
  ccmax,       \* per worker: the list ccmax of the arrival
  raised,      \* per worker: an exception is propagating out of the channel loop
  openFailed,  \* per worker: opening the waveform dataset raised
  loadFailed,  \* per rank: loading the catalog or the control file raised
  dest,        \* writer: position in the zip of the send loop
  stop_count,  \* writer: write_loop's stop_count
  idx,         \* writer: write_loop's idx
  f5,          \* writer: the datasets of the output file
  sent,        \* history, per worker: the messages it sent to the writer
  attempted,   \* history, per worker: the ids correlate was called with
  visited,     \* history, per worker: the arrivals the arrival loop reached
  errs,        \* history, per worker: where channel processing raised
  lastEmit,    \* history, per worker: the finalization its last step performed
  doneFrom,    \* history, per worker: StopIteration messages the writer received
  nRecv,       \* history: messages the writer received
  nData,       \* history: result messages the writer received
  sig,         \* per worker: signals delivered to it
  attAtSig,    \* history, per worker: Len(attempted) at its last signal
  chans        \* history, per worker: the channel of each accepted candidate

wloc == <<data, ii, knn, jj, arrivals, aa, cc, ddiff, ccmax, raised, openFailed>>
wrt  == <<dest, stop_count, idx, f5>>
hist == <<sent, attempted, visited, errs, lastEmit, doneFrom, nRecv, nData,
          sig, attAtSig, chans>>
vars == <<control, pc, loadFailed, shareChan, chan, wloc, wrt, hist>>

\* ----------------------------------------------------------------- messages
Done == [kind |-> "StopIteration"]
NoOp == [kind |-> "None"]

keys == <<"evidA", "evidB", "sta", "phase", "chan", "ddiff", "ccmax">>

NoEmit == [raised |-> FALSE, ddiff |-> <<>>, ccmax |-> <<>>, chans |-> <<>>,
           msg |-> NoOp]

Init ==
  /\ control \in Controls
  /\ pc = [r \in Ranks |-> "load"]
  /\ loadFailed = [r \in Ranks |-> FALSE]
  /\ shareChan = [w \in Workers |-> <<>>]
  /\ chan = [w \in Workers |-> <<>>]
  /\ data = [w \in Workers |-> <<>>]
  /\ ii = [w \in Workers |-> 0]
  /\ knn = [w \in Workers |-> <<>>]
  /\ jj = [w \in Workers |-> 0]
  /\ arrivals = [w \in Workers |-> <<>>]
  /\ aa = [w \in Workers |-> 0]
  /\ cc = [w \in Workers |-> 0]
  /\ ddiff = [w \in Workers |-> <<>>]
  /\ ccmax = [w \in Workers |-> <<>>]
  /\ raised = [w \in Workers |-> FALSE]
  /\ openFailed = [w \in Workers |-> FALSE]
  /\ dest = 1
  /\ stop_count = 0
  /\ idx = 0
  /\ f5 = <<>>
  /\ sent = [w \in Workers |-> <<>>]
  /\ attempted = [w \in Workers |-> <<>>]
  /\ visited = [w \in Workers |-> {}]
  /\ errs = [w \in Workers |-> {}]
  /\ lastEmit = [w \in Workers |-> NoEmit]
  /\ doneFrom = [w \in Workers |-> 0]
  /\ nRecv = 0
  /\ nData = 0
  /\ sig = [w \in Workers |-> 0]
  /\ attAtSig = [w \in Workers |-> 0]
  /\ chans = [w \in Workers |-> <<>>]

\* --------------------------------------------------------- main, every rank
\* main, lines 60-72: load_event_data and the control file.  A failure here is
\* outside every try of main: it propagates to __main__, which logs it.
load_event_data(r) ==
  /\ pc[r] = "load"
  /\ \/ /\ pc' = [pc EXCEPT ![r] = IF r = WRITER_RANK THEN "send" ELSE "open"]
        /\ UNCHANGED loadFailed
     \/ /\ pc' = [pc EXCEPT ![r] = "died"]
        /\ loadFailed' = [loadFailed EXCEPT ![r] = TRUE]
  /\ UNCHANGED <<control, shareChan, chan, wloc, wrt, hist>>

\* ------------------------------------------------------- main, writer rank
\* One iteration of the send loop of lines 76-78.
send_share ==
  /\ pc[WRITER_RANK] = "send"
  /\ dest <= SIZE - 1
  /\ LET _rank == WorkerRanks[dest]
         _data == array_split(ControlList(control), SIZE - 1)[dest]
     IN  /\ Len(shareChan[_rank]) < MaxInFlight
         /\ shareChan' = [shareChan EXCEPT ![_rank] = Append(@, _data)]
  /\ dest' = dest + 1
  /\ UNCHANGED <<control, loadFailed, pc, chan, wloc, stop_count, idx, f5,
                 hist>>

\* initialize_output and the first lines of write_loop.
initialize_output ==
  /\ pc[WRITER_RANK] = "send"
  /\ dest = SIZE
  /\ f5' = [n \in DOMAIN keys |-> <<>>]
  /\ stop_count' = 0
  /\ idx' = 0
  /\ pc' = [pc EXCEPT ![WRITER_RANK] = "loop"]
  /\ UNCHANGED <<control, loadFailed, shareChan, chan, wloc, dest, hist>>

LoopExit_one_short(sc) == sc >= SIZE - 2

LoopExit_all_ranks(sc) == sc = SIZE

\* The test of line 438.
LoopExit(sc) == sc = SIZE - 1

NeedsResize_once(i) == i = 0

\* The test of line 447.
NeedsResize(i) == i % OUTPUT_BLOCK_SIZE = 0

\* The fill value of the rows a resize adds.
Fill(n) == IF keys[n] \in {"sta", "phase", "chan"} THEN "" ELSE 0

resize_to_block(f) ==
  [n \in DOMAIN keys |-> [m \in 1 .. OUTPUT_BLOCK_SIZE |->
                            IF m <= Len(f[n]) THEN f[n][m] ELSE Fill(n)]]

\* Lines 448-449: every dataset grows by one block.
resize(f) ==
  [n \in DOMAIN keys |-> f[n] \o [m \in 1 .. OUTPUT_BLOCK_SIZE |-> Fill(n)]]

\* Lines 450-457: the row of a result; dsid is split into its four fields.
RowValues(m) ==
  << m.dsid[1], m.dsid[2], m.dsid[3], m.dsid[4], m.chan, m.ddiff, m.ccmax >>

recv_newest(q) == [msg |-> q[Len(q)], rest |-> SubSeq(q, 1, Len(q) - 1)]

\* COMM.recv() of line 440 on the messages q of one sender: it takes the
\* oldest of them (messages of one sender do not overtake each other).
recv(q) == [msg |-> Head(q), rest |-> Tail(q)]

write_return ==
  /\ pc[WRITER_RANK] = "loop"
  /\ LoopExit(stop_count)
  /\ pc' = [pc EXCEPT ![WRITER_RANK] = "returned"]
  /\ UNCHANGED <<control, loadFailed, shareChan, chan, wloc, wrt, hist>>

\* One iteration of write_loop that receives a message (lines 440-460).
write_recv(w) ==
  /\ pc[WRITER_RANK] = "loop"
  /\ ~LoopExit(stop_count)
  /\ chan[w] # <<>>
  /\ chan' = [chan EXCEPT ![w] = recv(@).rest]
  /\ nRecv' = nRecv + 1
  /\ LET m == recv(chan[w]).msg
     IN  \/ /\ m = NoOp
            /\ UNCHANGED <<pc, stop_count, idx, f5, doneFrom, nData>>
         \/ /\ m = Done
            /\ stop_count' = stop_count + 1
            /\ doneFrom' = [doneFrom EXCEPT ![w] = @ + 1]
            /\ UNCHANGED <<pc, idx, f5, nData>>
         \/ /\ m.kind = "data"
            /\ nData' = nData + 1
            /\ LET g == IF NeedsResize(idx) THEN resize(f5) ELSE f5
                   v == RowValues(m)
               IN  IF \A n \in DOMAIN keys : idx + 1 <= Len(g[n])
                   THEN /\ f5' = [n \in DOMAIN keys |->
                                    [g[n] EXCEPT ![idx + 1] = v[n]]]
                        /\ idx' = idx + 1
                        /\ UNCHANGED pc
                   ELSE \* a write past the end of a dataset raises
                        /\ f5' = g
                        /\ pc' = [pc EXCEPT ![WRITER_RANK] = "died"]
                        /\ UNCHANGED idx
            /\ UNCHANGED <<stop_count, doneFrom>>
  /\ UNCHANGED <<control, loadFailed, shareChan, wloc, dest, sent, attempted,
                 visited, errs, lastEmit, sig, attAtSig, chans>>

\* -------------------------------------------------------- main, worker rank
\* Lines 93-97, with the handler the dataset's failure enters: the except
\* clause of line 108 (where fid.close() raises, fid being unbound) and then
\* the finally clause of line 111.
open_dataset_to(w, handler) ==
  /\ pc[w] = "open"
  /\ \/ /\ pc' = [pc EXCEPT ![w] = "recv"]
        /\ UNCHANGED openFailed
     \/ /\ pc' = [pc EXCEPT ![w] = handler]
        /\ openFailed' = [openFailed EXCEPT ![w] = TRUE]
  /\ UNCHANGED <<control, loadFailed, shareChan, chan, data, ii, knn, jj,
                 arrivals, aa, cc, ddiff, ccmax, raised, wrt, hist>>

open_dataset_skipping_finally(w) == open_dataset_to(w, "died")

open_dataset(w) == open_dataset_to(w, "finally")

\* Line 99: data = COMM.recv().
recv_share(w) ==
  /\ pc[w] = "recv"
  /\ shareChan[w] # <<>>
  /\ data' = [data EXCEPT ![w] = Head(shareChan[w])]
  /\ shareChan' = [shareChan EXCEPT ![w] = Tail(@)]
  /\ ii' = [ii EXCEPT ![w] = 1]
  /\ pc' = [pc EXCEPT ![w] = "loop"]
  /\ UNCHANGED <<control, loadFailed, chan, knn, jj, arrivals, aa, cc, ddiff,
                 ccmax, raised, openFailed, wrt, hist>>

AfterFailedEvid_break(i) == [pc |-> "finally", ii |-> i + 1]

\* Where the loop of line 101 goes when correlate raised for data[i]: the
\* except clause of line 105 logs the error and the loop takes the next id.
AfterFailedEvid(i) == [pc |-> "loop", ii |-> i + 1]

\* Lines 101-104 and 251-254: the next id of the share, and the start of
\* correlate for it.  get_knn raises a KeyError for an id that is not an
\* event of df0_event.
next_evid(w) ==
  /\ pc[w] = "loop"
  /\ IF ii[w] > Len(data[w])
     THEN /\ pc' = [pc EXCEPT ![w] = "finally"]
          /\ UNCHANGED <<ii, knn, jj, attempted>>
     ELSE LET evid == data[w][ii[w]]
              df0_event == FilterEvents(control)
          IN  /\ attempted' = [attempted EXCEPT ![w] = Append(@, evid)]
              /\ IF ~HasEvent(evid, df0_event)
                 THEN /\ pc' = [pc EXCEPT ![w] = AfterFailedEvid(ii[w]).pc]
                      /\ ii' = [ii EXCEPT ![w] = AfterFailedEvid(ii[w]).ii]
                      /\ UNCHANGED <<knn, jj>>
                 ELSE /\ \E df_event \in get_knn(evid, df0_event, cfg.knn) :
                            knn' = [knn EXCEPT ![w] = df_event]
                      /\ jj' = [jj EXCEPT ![w] = 2]
                      /\ pc' = [pc EXCEPT ![w] = "pair"]
                      /\ UNCHANGED ii
  /\ lastEmit' = [lastEmit EXCEPT ![w] = NoEmit]
  /\ UNCHANGED <<control, loadFailed, shareChan, chan, data, arrivals, aa, cc,
                 ddiff, ccmax, raised, openFailed, wrt, sent, visited, errs,
                 doneFrom, nRecv, nData, sig, attAtSig, chans>>

\* The locals of correlate are gone when it returns or raises.
leave_correlate(w) ==
  /\ knn' = [knn EXCEPT ![w] = <<>>]
  /\ jj' = [jj EXCEPT ![w] = 0]
  /\ arrivals' = [arrivals EXCEPT ![w] = <<>>]
  /\ aa' = [aa EXCEPT ![w] = 0]
  /\ cc' = [cc EXCEPT ![w] = 0]

evid0(w) == knn[w][1].id
evidB(w) == knn[w][jj[w]].id

\* Lines 255-268: the next secondary event and its arrivals, or the return of
\* correlate.
next_pair(w) ==
  /\ pc[w] = "pair"
  /\ IF jj[w] > Len(knn[w])
     THEN /\ pc' = [pc EXCEPT ![w] = "loop"]
          /\ ii' = [ii EXCEPT ![w] = @ + 1]
          /\ leave_correlate(w)
     ELSE /\ pc' = [pc EXCEPT ![w] = "arrival"]
          /\ \E __df_phase \in PairArrivals(knn[w], evid0(w), evidB(w)) :
                arrivals' = [arrivals EXCEPT ![w] = __df_phase]
          /\ aa' = [aa EXCEPT ![w] = 1]
          /\ UNCHANGED <<ii, knn, jj, cc>>
  /\ UNCHANGED <<control, loadFailed, shareChan, chan, data,
                 ddiff, ccmax, raised, openFailed, wrt, hist>>

ArrivalKey(w, arrival) == <<evid0(w), evidB(w), arrival.sta, arrival.phase>>

\* Lines 270-293: the next arrival of the pair; its lists start empty; the
\* arrival is skipped when either event has no waveforms at the station.
next_arrival(w) ==
  /\ pc[w] = "arrival"
  /\ IF aa[w] > Len(arrivals[w])
     THEN /\ pc' = [pc EXCEPT ![w] = "pair"]
          /\ jj' = [jj EXCEPT ![w] = @ + 1]
          /\ UNCHANGED <<aa, cc, ddiff, ccmax, visited, chans>>
     ELSE LET arrival == arrivals[w][aa[w]]
          IN  /\ visited' = [visited EXCEPT ![w] = @ \cup {ArrivalKey(w, arrival)}]
              /\ ddiff' = [ddiff EXCEPT ![w] = <<>>]
              /\ ccmax' = [ccmax EXCEPT ![w] = <<>>]
              /\ chans' = [chans EXCEPT ![w] = <<>>]
              /\ IF /\ HasWaveforms(evid0(w), arrival.net, arrival.sta)
                    /\ HasWaveforms(evidB(w), arrival.net, arrival.sta)
                 THEN /\ pc' = [pc EXCEPT ![w] = "chan"]
                      /\ cc' = [cc EXCEPT ![w] = 1]
                      /\ UNCHANGED aa
                 ELSE /\ aa' = [aa EXCEPT ![w] = @ + 1]
                      /\ UNCHANGED <<pc, cc>>
              /\ UNCHANGED jj
  /\ lastEmit' = [lastEmit EXCEPT ![w] = NoEmit]
  /\ UNCHANGED <<control, loadFailed, shareChan, chan, data, ii, knn,
                 arrivals, raised, openFailed, wrt, sent, attempted, errs,
                 doneFrom, nRecv, nData, sig, attAtSig>>

Accepted_any(_ccmax) == TRUE

\* The test of line 385.
Accepted(_ccmax) == Abs(_ccmax) >= cfg.corr_min

\* Lines 304-389: one channel of st0.  A channel stB lacks is skipped
\* (IndexError), as is one with too few samples; the correlation measures
\* <<clag, _ccmax>>; any other error leaves the loop for the finally clause.
next_channel(w) ==
  /\ pc[w] = "chan"
  /\ LET arrival == arrivals[w][aa[w]]
         st0 == get_waveforms_for_reference(evid0(w), arrival.net, arrival.sta)
         stB == get_waveforms_for_reference(evidB(w), arrival.net, arrival.sta)
     IN  IF cc[w] > Len(st0)
         THEN /\ pc' = [pc EXCEPT ![w] = "emit"]
              /\ UNCHANGED <<cc, ddiff, ccmax, chans, raised, errs>>
         ELSE LET tr0 == st0[cc[w]]
                  sel == select(stB, tr0.channel)
              IN  IF sel = <<>>
                  THEN /\ cc' = [cc EXCEPT ![w] = @ + 1]
                       /\ UNCHANGED <<pc, ddiff, ccmax, chans, raised, errs>>
                  ELSE LET trB == sel[1]
                           trY == IF arrival.evid = evid0(w) THEN trB ELSE tr0
                       IN  \/ \* len(trX) < min_nsamp or len(trY) < min_nsamp
                              /\ cc' = [cc EXCEPT ![w] = @ + 1]
                              /\ UNCHANGED <<pc, ddiff, ccmax, chans, raised, errs>>
                           \/ \* an error while processing the channel
                              /\ raised' = [raised EXCEPT ![w] = TRUE]
                              /\ errs' = [errs EXCEPT ![w] = @ \cup
                                   {[ii |-> ii[w], knn |-> knn[w]]}]
                              /\ pc' = [pc EXCEPT ![w] = "emit"]
                              /\ UNCHANGED <<cc, ddiff, ccmax, chans>>
                           \/ \E o \in CorrOutcomes :
                                LET clag == o[1]
                                    _ccmax == o[2]
                                    _ddiff == clag * trY.delta
                                IN  /\ IF Accepted(_ccmax)
                                       THEN /\ ddiff' = [ddiff EXCEPT ![w] = Append(@, _ddiff)]
                                            /\ ccmax' = [ccmax EXCEPT ![w] = Append(@, _ccmax)]
                                            /\ chans' = [chans EXCEPT ![w] = Append(@, tr0.channel)]
                                       ELSE UNCHANGED <<ddiff, ccmax, chans>>
                                    /\ cc' = [cc EXCEPT ![w] = @ + 1]
                                    /\ UNCHANGED <<pc, raised, errs>>
  /\ UNCHANGED <<control, loadFailed, shareChan, chan, data, ii, knn, jj,
                 arrivals, aa, openFailed, wrt, sent, attempted, visited,
                 lastEmit, doneFrom, nRecv, nData, sig, attAtSig>>

\* np.argmax(ccmax), taken without np.abs.
argmax_signed(a) ==
  CHOOSE n \in DOMAIN a :
    /\ \A m \in DOMAIN a : a[m] <= a[n]
    /\ \A m \in 1 .. (n - 1) : a[m] < a[n]

\* np.argmax(np.abs(ccmax)): the first position of the largest magnitude.
argmax_abs(a) ==
  CHOOSE n \in DOMAIN a :
    /\ \A m \in DOMAIN a : Abs(a[m]) <= Abs(a[n])
    /\ \A m \in 1 .. (n - 1) : Abs(a[m]) < Abs(a[n])

\* Lines 392-411: what the finally clause sends for the arrival.
FinalData(_evid0, _evidB, arrival, _ddiff, _ccmax) ==
  IF Len(_ddiff) > 0
  THEN LET idxmax == argmax_abs(_ccmax)
       IN  [kind  |-> "data",
            grpid |-> <<_evid0, _evidB, arrival.sta>>,
            dsid  |-> <<_evid0, _evidB, arrival.sta, arrival.phase>>,
            ddiff |-> _ddiff[idxmax],
            ccmax |-> _ccmax[idxmax],
            chan  |-> arrival.chan,
            phase |-> arrival.phase]
  ELSE NoOp

FinalMessage_unless_raised(w) ==
  IF raised[w] THEN NoOp
  ELSE FinalData(evid0(w), evidB(w), arrivals[w][aa[w]], ddiff[w], ccmax[w])

FinalMessage_winning_chan(w) ==
  LET d == FinalData(evid0(w), evidB(w), arrivals[w][aa[w]], ddiff[w], ccmax[w])
  IN  IF d = NoOp THEN d
      ELSE [d EXCEPT !.chan = chans[w][argmax_abs(ccmax[w])]]

\* The message of the finally clause: it is built whether or not an exception
\* is propagating.
FinalMessage(w) ==
  FinalData(evid0(w), evidB(w), arrivals[w][aa[w]], ddiff[w], ccmax[w])

sends_unless_raised(w, msg) == IF raised[w] THEN <<>> ELSE <<msg>>

\* Line 414: the finally clause sends the message whether or not an exception
\* is propagating.
sends(w, msg) == <<msg>>

\* Lines 390-415: the finally clause of the channel loop sends the arrival's
\* message; an exception that entered it then propagates out of correlate to
\* the except clause of line 105.
emit(w) ==
  /\ pc[w] = "emit"
  /\ Len(chan[w]) < MaxInFlight
  /\ LET msg == FinalMessage(w)
     IN  /\ chan' = [chan EXCEPT ![w] = @ \o sends(w, msg)]
         /\ sent' = [sent EXCEPT ![w] = @ \o sends(w, msg)]
         /\ lastEmit' = [lastEmit EXCEPT ![w] =
                           [raised |-> raised[w], ddiff |-> ddiff[w],
                            ccmax |-> ccmax[w], chans |-> chans[w],
                            msg |-> msg]]
  /\ IF raised[w]
     THEN /\ raised' = [raised EXCEPT ![w] = FALSE]
          /\ pc' = [pc EXCEPT ![w] = AfterFailedEvid(ii[w]).pc]
          /\ ii' = [ii EXCEPT ![w] = AfterFailedEvid(ii[w]).ii]
          /\ leave_correlate(w)
     ELSE /\ pc' = [pc EXCEPT ![w] = "arrival"]
          /\ aa' = [aa EXCEPT ![w] = @ + 1]
          /\ UNCHANGED <<raised, ii, knn, jj, arrivals, cc>>
  /\ ddiff' = [ddiff EXCEPT ![w] = <<>>]
  /\ ccmax' = [ccmax EXCEPT ![w] = <<>>]
  /\ chans' = [chans EXCEPT ![w] = <<>>]
  /\ UNCHANGED <<control, loadFailed, shareChan, data,
                 openFailed, wrt, attempted, visited, errs, doneFrom, nRecv,
                 nData, sig, attAtSig>>

send_done_after_work(w) ==
  /\ pc[w] = "finally"
  /\ Len(chan[w]) < MaxInFlight
  /\ chan' = [chan EXCEPT ![w] = IF attempted[w] = <<>> THEN @ ELSE Append(@, Done)]
  /\ sent' = [sent EXCEPT ![w] = IF attempted[w] = <<>> THEN @ ELSE Append(@, Done)]
  /\ pc' = [pc EXCEPT ![w] = IF openFailed[w] THEN "died" ELSE "exit"]
  /\ UNCHANGED <<control, loadFailed, shareChan, wloc, wrt, attempted,
                 visited, errs, lastEmit, doneFrom, nRecv, nData, sig,
                 attAtSig, chans>>

\* Lines 111-113: the finally clause of main sends StopIteration; the error of
\* a dataset that did not open then propagates to __main__.
send_done(w) ==
  /\ pc[w] = "finally"
  /\ Len(chan[w]) < MaxInFlight
  /\ chan' = [chan EXCEPT ![w] = Append(@, Done)]
  /\ sent' = [sent EXCEPT ![w] = Append(@, Done)]
  /\ pc' = [pc EXCEPT ![w] = IF openFailed[w] THEN "died" ELSE "exit"]
  /\ UNCHANGED <<control, loadFailed, shareChan, wloc, wrt, attempted,
                 visited, errs, lastEmit, doneFrom, nRecv, nData, sig,
                 attAtSig, chans>>

\* ------------------------------------------------------------ specification
Writer ==
  \/ load_event_data(WRITER_RANK)
  \/ send_share
  \/ initialize_output
  \/ write_return
  \/ \E w \in Workers : write_recv(w)

Worker(w) ==
  \/ load_event_data(w)
  \/ open_dataset(w)
  \/ recv_share(w)
  \/ next_evid(w)
  \/ next_pair(w)
  \/ next_arrival(w)
  \/ next_channel(w)
  \/ emit(w)
  \/ send_done(w)

Next == Writer \/ \E w \in Workers : Worker(w)

Spec == Init /\ [][Next]_vars

\* Every rank is a process of its own that keeps running, and a message that
\* was sent is there to be received: each rank takes a step it can take.
FairSpec == Spec /\ \A r \in Ranks :
              WF_vars(IF r = WRITER_RANK THEN Writer ELSE Worker(r))

\* ------------------------------------------------------------------ signals
\* signal_handler (lines 468-473) raises SystemError in the worker's main
\* thread, at the statement it is executing; SystemError is an Exception, so
\* the innermost enclosing try of that statement handles it.
signal_handler(w) ==
  /\ sig[w] < MaxSignals
  /\ sig' = [sig EXCEPT ![w] = @ + 1]
  /\ attAtSig' = [attAtSig EXCEPT ![w] = Len(attempted[w])]
  /\ \/ \* lines 60-92, outside every try of main: __main__ logs the error
        /\ pc[w] = "load"
        /\ pc' = [pc EXCEPT ![w] = "died"]
        /\ UNCHANGED <<shareChan, data, ii, raised, knn, jj, arrivals, aa, cc>>
     \/ \* lines 93-97: the except clause of line 108, then the finally clause
        /\ pc[w] = "open"
        /\ pc' = [pc EXCEPT ![w] = "finally"]
        /\ UNCHANGED <<shareChan, data, ii, raised, knn, jj, arrivals, aa, cc>>
     \/ \* line 99: the handler runs when the blocking receive has returned
        /\ pc[w] = "recv"
        /\ shareChan[w] # <<>>
        /\ shareChan' = [shareChan EXCEPT ![w] = Tail(@)]
        /\ data' = [data EXCEPT ![w] = Head(shareChan[w])]
        /\ ii' = [ii EXCEPT ![w] = 1]
        /\ pc' = [pc EXCEPT ![w] = "finally"]
        /\ UNCHANGED <<raised, knn, jj, arrivals, aa, cc>>
     \/ \* lines 101-102, in the loop but outside the try of line 103
        /\ pc[w] = "loop"
        /\ pc' = [pc EXCEPT ![w] = "finally"]
        /\ UNCHANGED <<shareChan, data, ii, raised, knn, jj, arrivals, aa, cc>>
     \/ \* inside correlate, outside the try of line 303: caught at line 105
        /\ pc[w] \in {"pair", "arrival"}
        /\ pc' = [pc EXCEPT ![w] = AfterFailedEvid(ii[w]).pc]
        /\ ii' = [ii EXCEPT ![w] = AfterFailedEvid(ii[w]).ii]
        /\ leave_correlate(w)
        /\ UNCHANGED <<shareChan, data, raised>>
     \/ \* inside the try of line 303: its finally clause runs first
        /\ pc[w] = "chan"
        /\ raised' = [raised EXCEPT ![w] = TRUE]
        /\ pc' = [pc EXCEPT ![w] = "emit"]
        /\ UNCHANGED <<shareChan, data, ii, knn, jj, arrivals, aa, cc>>
     \/ \* inside the finally clause of line 390, before the send of line 414
        /\ pc[w] = "emit"
        /\ raised' = [raised EXCEPT ![w] = FALSE]
        /\ pc' = [pc EXCEPT ![w] = AfterFailedEvid(ii[w]).pc]
        /\ ii' = [ii EXCEPT ![w] = AfterFailedEvid(ii[w]).ii]
        /\ leave_correlate(w)
        /\ UNCHANGED <<shareChan, data>>
     \/ \* inside the finally clause of line 111, before the send of line 113
        /\ pc[w] = "finally"
        /\ pc' = [pc EXCEPT ![w] = "died"]
        /\ UNCHANGED <<shareChan, data, ii, raised, knn, jj, arrivals, aa, cc>>
  /\ UNCHANGED <<control, loadFailed, chan, ddiff, ccmax, openFailed, wrt,
                 sent, attempted, visited, errs, lastEmit, doneFrom, nRecv,
                 nData, chans>>

NextSig == Next \/ \E w \in Workers : signal_handler(w)

SpecSig == Init /\ [][NextSig]_vars

\* ------------------------------------------------------------------- claims
RECURSIVE SumOver(_, _)
SumOver(f, S) ==
  IF S = {} THEN 0
  ELSE LET x == CHOOSE y \in S : TRUE IN f[x] + SumOver(f, S \ {x})

\* StopIteration messages the writer has received.
DoneReceived == SumOver(doneFrom, Workers)

Count(s, m) == Cardinality({ n \in DOMAIN s : s[n] = m })

Finished(w) == pc[w] \in {"exit", "died"}

\* C1: write_loop returns only when exactly SIZE-1 StopIteration messages
\* have been received, whatever else was received, never with fewer, and it
\* receives no message once SIZE-1 of them have been received.
C1_ReturnsAtExactlyNDone ==
  /\ [](DoneReceived <= SIZE - 1)
  /\ [](pc[WRITER_RANK] = "returned"
          => DoneReceived = SIZE - 1 /\ stop_count = SIZE - 1)
  /\ [][DoneReceived = SIZE - 1 => nRecv' = nRecv]_vars

C1_Witness ==
  /\ pc[WRITER_RANK] = "returned"
  /\ nData >= 2
  /\ nRecv > nData + DoneReceived

\* C2: when the catalog loads on every rank and every worker's dataset opens,
\* every worker receives its share and sends StopIteration, and write_loop
\* returns.
LoadOrOpenFailure ==
  \/ \E r \in Ranks : loadFailed[r]
  \/ \E w \in Workers : openFailed[w]

Completed ==
  /\ \A w \in Workers : ii[w] >= 1 /\ Count(sent[w], Done) = 1
  /\ pc[WRITER_RANK] = "returned"

C2_RunCompletes == ([]~LoadOrOpenFailure) => <>Completed

C2_Witness ==
  /\ ~LoadOrOpenFailure
  /\ Completed
  /\ \E w \in Workers : errs[w] # {}
  /\ nData >= 1

\* C3: once the output is initialized, idx is the number of results received
\* and every dataset's length is the smallest multiple of OUTPUT_BLOCK_SIZE
\* that is at least that number.
C3_CapacityIsCeilingBlock ==
  (DOMAIN f5 = DOMAIN keys) =>
     /\ idx = nData
     /\ \A n \in DOMAIN keys :
          /\ Len(f5[n]) % OUTPUT_BLOCK_SIZE = 0
          /\ Len(f5[n]) >= nData
          /\ Len(f5[n]) - OUTPUT_BLOCK_SIZE < nData

C3_Witness ==
  /\ DOMAIN f5 = DOMAIN keys
  /\ nData = OUTPUT_BLOCK_SIZE + 1
  /\ Len(f5[1]) = 2 * OUTPUT_BLOCK_SIZE

\* C4: a worker that got past the catalog sends StopIteration exactly once,
\* as its last message; one with an empty share sends nothing else, and the
\* writer counts it once.
C4_OneDoneLast ==
  \A w \in Workers :
    /\ \A n \in DOMAIN sent[w] : sent[w][n] = Done => n = Len(sent[w])
    /\ doneFrom[w] <= Count(sent[w], Done)
    /\ (Finished(w) /\ ~loadFailed[w]) => Count(sent[w], Done) = 1
    /\ (Finished(w) /\ ii[w] >= 1 /\ data[w] = <<>>) => sent[w] = <<Done>>
    /\ (pc[WRITER_RANK] = "returned") => doneFrom[w] = 1

C4_Witness ==
  \E w \in Workers :
    /\ ii[w] >= 1
    /\ data[w] = <<>>
    /\ sent[w] = <<Done>>
    /\ doneFrom[w] = 1
    /\ stop_count = SIZE - 1

\* C5: a worker whose catalog fails to load still sends StopIteration before
\* it terminates.
C5_DoneAfterCatalogFailure ==
  \A w \in Workers : loadFailed[w] => Count(sent[w], Done) = 1

\* C6: a worker whose dataset fails to open never receives its share,
\* correlates nothing, sends no result and no None, and sends StopIteration
\* exactly once.
C6_DoneAfterOpenFailure ==
  \A w \in Workers :
    openFailed[w] =>
      /\ ii[w] = 0
      /\ attempted[w] = <<>>
      /\ sent[w] \in {<<>>, <<Done>>}
      /\ pc[w] \in {"finally", "died"}
      /\ Finished(w) => sent[w] = <<Done>>

C6_Witness ==
  \E w \in Workers :
    /\ openFailed[w]
    /\ doneFrom[w] = 1
    /\ pc[WRITER_RANK] = "returned"

\* C7: a signal delivered to a worker is fatal for it: it correlates no
\* further id, and it has sent StopIteration exactly once when it terminates.
C7_SignalIsFatal ==
  \A w \in Workers :
    sig[w] > 0 =>
      /\ Len(attempted[w]) = attAtSig[w]
      /\ Finished(w) => Count(sent[w], Done) = 1

\* The arrivals of every pair of the neighbours knn of a primary event.
AllArrivalKeys(df_event) ==
  { <<df_event[1].id, df_event[j].id, r.sta, r.phase>> :
      <<j, r>> \in { <<j, r>> \in (2 .. Len(df_event)) \X Range(Picks) :
                      \E t \in PairArrivals(df_event, df_event[1].id,
                                            df_event[j].id) : r \in Range(t) } }

\* C8: an error in one channel is confined to it: the worker still goes
\* through the remaining arrivals and pairs of the same primary event.
C8_ErrorConfinedToChannel ==
  \A w \in Workers : \A e \in errs[w] :
    ii[w] > e.ii => AllArrivalKeys(e.knn) \subseteq visited[w]

\* C9: when channel processing raised, the finally clause has sent, for that
\* arrival, the candidate of largest |coefficient| among those accepted before
\* the error, or None when none was accepted.
C9_BestBeforeErrorEmitted ==
  \A w \in Workers :
    LET e == lastEmit[w] IN
    e.raised =>
      /\ sent[w] # <<>> /\ sent[w][Len(sent[w])] = e.msg
      /\ IF e.ccmax = <<>>
         THEN e.msg = NoOp
         ELSE /\ e.msg.kind = "data"
              /\ \E n \in DOMAIN e.ccmax :
                   /\ e.msg.ccmax = e.ccmax[n]
                   /\ e.msg.ddiff = e.ddiff[n]
                   /\ \A m \in DOMAIN e.ccmax : Abs(e.ccmax[m]) <= Abs(e.ccmax[n])

C9_Witness ==
  \E w \in Workers :
    /\ lastEmit[w].raised
    /\ Len(lastEmit[w].ccmax) = 2
    /\ Abs(lastEmit[w].ccmax[1]) < Abs(lastEmit[w].ccmax[2])

\* C10: a failure of correlate for one id does not end the loop: the ids of
\* the share are attempted once each in share order, and StopIteration is
\* sent only after the last one.
IsPrefix(s, t) == Len(s) <= Len(t) /\ SubSeq(t, 1, Len(s)) = s

C10_EveryIdAttempted ==
  \A w \in Workers :
    /\ IsPrefix(attempted[w], data[w])
    /\ (Count(sent[w], Done) > 0 /\ ~openFailed[w]) => attempted[w] = data[w]

C10_Witness ==
  \E w \in Workers :
    /\ Count(sent[w], Done) = 1
    /\ attempted[w] = data[w]
    /\ \E e \in errs[w] : e.ii < Len(data[w])

\* C11: no result a worker sent, no candidate it keeps and no row of the
\* output has |ccmax| below corr_min; a negative coefficient of sufficient
\* magnitude is accepted.
C11_NoWeakResult ==
  /\ \A w \in Workers :
       /\ \A n \in DOMAIN sent[w] :
            sent[w][n].kind = "data" => Abs(sent[w][n].ccmax) >= cfg.corr_min
       /\ \A n \in DOMAIN ccmax[w] : Abs(ccmax[w][n]) >= cfg.corr_min
  /\ (DOMAIN f5 = DOMAIN keys) =>
       \A n \in 1 .. idx : Abs(f5[7][n]) >= cfg.corr_min

C11_Witness ==
  /\ DOMAIN f5 = DOMAIN keys
  /\ \E n \in 1 .. idx : f5[7][n] < 0
  /\ \E o \in CorrOutcomes : ~Accepted(o[2])


\* C12: each arrival's processing ends with one message; when candidates were
\* accepted it is a result carrying the ddiff and the ccmax of one and the
\* same candidate, the first in channel order of those of largest |ccmax|,
\* which is at least the magnitude of anything the test of line 385 rejects;
\* when none was accepted it is None.
C12_BestCandidateEmitted ==
  /\ [](\A w \in Workers :
          LET e == lastEmit[w] IN
          IF e.ccmax = <<>>
          THEN e.msg = NoOp
          ELSE /\ e.msg.kind = "data"
               /\ \E n \in DOMAIN e.ccmax :
                    /\ \A m \in DOMAIN e.ccmax : Abs(e.ccmax[m]) <= Abs(e.ccmax[n])
                    /\ \A m \in 1 .. (n - 1) : Abs(e.ccmax[m]) < Abs(e.ccmax[n])
                    /\ e.msg.ccmax = e.ccmax[n]
                    /\ e.msg.ddiff = e.ddiff[n]
               /\ \A o \in CorrOutcomes :
                    ~Accepted(o[2]) => Abs(o[2]) <= Abs(e.msg.ccmax))
  /\ [][\A w \in Workers :
          sent'[w] # sent[w] =>
            /\ pc[w] \in {"emit", "finally"}
            /\ pc'[w] \notin {"chan", "emit"}
            /\ Len(sent'[w]) = Len(sent[w]) + 1
            /\ SubSeq(sent'[w], 1, Len(sent[w])) = sent[w]]_vars

C12_Witness ==
  \E w \in Workers :
    LET e == lastEmit[w] IN
    /\ Len(e.ccmax) >= 2
    /\ Abs(e.ccmax[1]) = Abs(e.ccmax[2])
    /\ e.ddiff[1] # e.ddiff[2]
    /\ \A m \in DOMAIN e.ccmax : Abs(e.ccmax[m]) <= Abs(e.ccmax[1])
    /\ e.msg.kind = "data"
    /\ e.msg.ddiff = e.ddiff[1]


\* The (evidA, evidB, sta, phase) of row n of the output.
RowKey(n) == << f5[1][n], f5[2][n], f5[3][n], f5[4][n] >>

\* C13: when write_loop has returned, the output holds at most one row per
\* (evidA, evidB, sta, phase), and no pair of events in both directions.
C13_OneRowPerArrival ==
  pc[WRITER_RANK] = "returned" =>
    \A i, j \in 1 .. idx :
      i # j => /\ RowKey(i) # RowKey(j)
               /\ ~(f5[1][i] = f5[2][j] /\ f5[2][i] = f5[1][j])


\* The worker is inside correlate for the id data[w][ii[w]].
InCorrelate(w) == pc[w] \in {"pair", "arrival", "chan", "emit"}

\* C14: the result of get_knn(E, events, K) has min(K+1, number of events
\* with id >= E) rows, all of id >= E, in order of non-decreasing distance,
\* and its first row is E itself at distance 0.
C14_KnnStartsWithPrimary ==
  \A w \in Workers :
    InCorrelate(w) =>
      LET E == data[w][ii[w]]
          events == FilterEvents(control)
          eligible == { n \in DOMAIN events : events[n].id >= E }
          K == cfg.knn
      IN  /\ Len(knn[w]) = IF K + 1 < Cardinality(eligible)
                           THEN K + 1 ELSE Cardinality(eligible)
          /\ \A n \in DOMAIN knn[w] : knn[w][n].id >= E
          /\ \A n \in 1 .. (Len(knn[w]) - 1) :
               knn[w][n].distance <= knn[w][n + 1].distance
          /\ knn[w][1].id = E
          /\ knn[w][1].distance = 0


\* C15: every pair a worker correlates for its assigned id E, and every
\* result it sends, has E as its first id and a second id that is >= E and
\* is not E.
C15_PairsOfAssignedId ==
  \A w \in Workers :
    /\ (pc[w] \in {"arrival", "chan", "emit"}) =>
         /\ evid0(w) = data[w][ii[w]]
         /\ evidB(w) >= evid0(w)
         /\ evidB(w) # evid0(w)
    /\ \A n \in DOMAIN sent[w] :
         sent[w][n].kind = "data" =>
           /\ \E i \in DOMAIN attempted[w] : attempted[w][i] = sent[w][n].dsid[1]
           /\ sent[w][n].dsid[2] > sent[w][n].dsid[1]


\* The (sta, phase) the events of a set have picks for.
PickedBy(evids) ==
  { <<Picks[n].sta, Picks[n].phase>> :
      n \in { n \in DOMAIN Picks : Picks[n].evid \in evids } }

\* C16: the arrivals selected for a pair hold no two rows of the same
\* (sta, phase), one row for every (sta, phase) either event has a pick for,
\* and only rows of the two events of the pair.
C16_OneArrivalPerStationPhase ==
  \A w \in Workers :
    (pc[w] \in {"arrival", "chan", "emit"}) =>
      LET t == arrivals[w] IN
      /\ \A m, n \in DOMAIN t :
           (t[m].sta = t[n].sta /\ t[m].phase = t[n].phase) => m = n
      /\ { <<t[n].sta, t[n].phase>> : n \in DOMAIN t }
           = PickedBy({evid0(w), evidB(w)})
      /\ \A n \in DOMAIN t :
           /\ t[n].evid \in {evid0(w), evidB(w)}
           /\ \E p \in DOMAIN Picks : Picks[p] = t[n]

\* The pair has a (sta, phase) both events picked, and one that an event
\* picked twice.
C16_Witness ==
  \E w \in Workers :
    /\ pc[w] = "arrival"
    /\ evid0(w) # evidB(w)
    /\ \E p, q \in DOMAIN Picks :
         /\ Picks[p].evid = evid0(w) /\ Picks[q].evid = evidB(w)
         /\ Picks[p].sta = Picks[q].sta /\ Picks[p].phase = Picks[q].phase
    /\ \E p, q \in DOMAIN Picks :
         /\ p # q
         /\ Picks[p].evid = Picks[q].evid
         /\ Picks[p].evid \in {evid0(w), evidB(w)}
         /\ Picks[p].sta = Picks[q].sta /\ Picks[p].phase = Picks[q].phase
         /\ \E n \in DOMAIN arrivals[w] : arrivals[w][n] = Picks[q]


RECURSIVE Concat(_, _)
Concat(parts, n) == IF n = 0 THEN <<>> ELSE Concat(parts, n - 1) \o parts[n]

\* What the writer sends to the s-th worker of its send loop.
ShareFor(s) == array_split(ControlList(control), SIZE - 1)[s]

\* Each worker of the send loop so far was sent exactly one share, which is
\* in flight or received and is its section of the list; no other worker has
\* a share or has correlated anything; the writer is in its receive loop only
\* when all shares are sent; the sections are contiguous, make up the whole
\* list in worker order and differ in size by at most one.
SharesStatic ==
  /\ \A s \in 1 .. (SIZE - 1) :
       LET w == WorkerRanks[s] IN
       IF s < dest
       THEN /\ Len(shareChan[w]) + (IF ii[w] >= 1 THEN 1 ELSE 0) = 1
            /\ shareChan[w] # <<>> => Head(shareChan[w]) = ShareFor(s)
            /\ ii[w] >= 1 => data[w] = ShareFor(s)
       ELSE /\ shareChan[w] = <<>>
            /\ ii[w] = 0
            /\ attempted[w] = <<>>
  /\ pc[WRITER_RANK] \in {"loop", "returned"} => dest = SIZE
  /\ Concat([s \in 1 .. (SIZE - 1) |-> ShareFor(s)], SIZE - 1)
       = ControlList(control)
  /\ \A s, t \in 1 .. (SIZE - 1) : Len(ShareFor(s)) - Len(ShareFor(t)) <= 1

\* C17 as stated: the shares are static sections of the list, one per
\* worker, and all of them are sent before any worker correlates anything.
C17_AllSharesBeforeAnyWork ==
  /\ SharesStatic
  /\ (\E w \in Workers : attempted[w] # <<>>) => dest = SIZE

\* C17, amended: the shares are static sections of the list, one per worker,
\* all sent before the writer enters its receive loop, and each worker's
\* share is sent before that worker correlates anything.
C17_SharesStaticPerWorker == SharesStatic

C17_Witness ==
  /\ dest < SIZE
  /\ ~control.given
  /\ \E w \in Workers : attempted[w] # <<>> /\ data[w] = ShareFor(1)
  /\ \E s, t \in 1 .. (SIZE - 1) : Len(ShareFor(s)) > Len(ShareFor(t))


\* The arrival the worker is at has waveforms for both events of the pair.
BothRetrieved(w) ==
  LET arrival == arrivals[w][aa[w]] IN
  /\ HasWaveforms(evid0(w), arrival.net, arrival.sta)
  /\ HasWaveforms(evidB(w), arrival.net, arrival.sta)

\* C18: an arrival whose waveforms are retrieved for both events is left only
\* by sending one message, a result or None, also when its channel processing
\* raised; an arrival that lacks waveforms for either event is skipped without
\* a message, and the worker is then at the next arrival of the same pair.
C18_OneMessagePerArrival ==
  [][\A w \in Workers :
       /\ (pc[w] = "arrival" /\ pc'[w] = "chan") =>
            /\ BothRetrieved(w)
            /\ sent'[w] = sent[w]
       /\ (pc[w] = "chan" /\ pc'[w] # "chan") =>
            /\ pc'[w] = "emit"
            /\ sent'[w] = sent[w]
       /\ (pc[w] = "emit" /\ pc'[w] # "emit") =>
            /\ Len(sent'[w]) = Len(sent[w]) + 1
            /\ sent'[w][Len(sent'[w])].kind \in {"data", "None"}
            /\ pc'[w] = "arrival" => (aa'[w] = aa[w] + 1 /\ jj'[w] = jj[w])
       /\ (pc[w] = "arrival" /\ aa[w] <= Len(arrivals[w]) /\ ~BothRetrieved(w)
             /\ <<pc[w], aa[w], jj[w]>> # <<pc'[w], aa'[w], jj'[w]>>) =>
            /\ pc'[w] = "arrival"
            /\ aa'[w] = aa[w] + 1
            /\ jj'[w] = jj[w] /\ knn'[w] = knn[w] /\ arrivals'[w] = arrivals[w]
            /\ sent'[w] = sent[w]]_vars

\* An error was raised in an arrival that follows a skipped one in its pair,
\* and its message was sent.
C18_Witness ==
  \E w \in Workers :
    /\ lastEmit[w].raised
    /\ sent[w] # <<>>
    /\ sent[w][Len(sent[w])] = lastEmit[w].msg
    /\ \E k \in visited[w] :
         /\ ~(HasWaveforms(k[1], "XX", k[3]) /\ HasWaveforms(k[2], "XX", k[3]))
         /\ \E k2 \in visited[w] :
              /\ k2[1] = k[1] /\ k2[2] = k[2]
              /\ StrRank(k[3]) < StrRank(k2[3])
              /\ HasWaveforms(k2[1], "XX", k2[3]) /\ HasWaveforms(k2[2], "XX", k2[3])


\* The results among the messages s.
Results(s) == SelectSeq(s, LAMBDA m : m.kind = "data")

\* The results of worker w that the writer has received: those it sent less
\* those still in flight.
Received(w) ==
  SubSeq(Results(sent[w]), 1, Len(Results(sent[w])) - Len(Results(chan[w])))

\* Row n of the output.
Row(n) == [k \in DOMAIN keys |-> f5[k][n]]

\* The first n rows of the output are an interleaving of the first pos[w]
\* results received of every worker w, each worker's in the order it sent them.
RECURSIVE IsMerge(_, _)
IsMerge(n, pos) ==
  IF n = 0 THEN \A w \in Workers : pos[w] = 0
  ELSE \E w \in Workers :
         /\ pos[w] > 0
         /\ Row(n) = RowValues(Received(w)[pos[w]])
         /\ IsMerge(n - 1, [pos EXCEPT ![w] = @ - 1])

\* C19: the rows of the output are the results received, each worker's in the
\* order that worker sent them, whatever the interleaving of the workers.
C19_RowsInSendOrder ==
  IsMerge(idx, [w \in Workers |-> Len(Received(w))])

\* Two different results of one worker are in the output with a result of
\* another worker between them.
C19_Witness ==
  /\ idx = 3
  /\ \E w, v \in Workers :
       /\ w # v
       /\ Len(Received(w)) = 2 /\ Len(Received(v)) = 1
       /\ Received(w)[1] # Received(w)[2]
       /\ Row(1) = RowValues(Received(w)[1])
       /\ Row(2) = RowValues(Received(v)[1])
       /\ Row(3) = RowValues(Received(w)[2])
       /\ Row(1) # Row(2) /\ Row(2) # Row(3)


\* The rows all workers' results make, and how often r is one of them.
SentRows == UNION { { RowValues(m) : m \in Range(Results(sent[w])) } : w \in Workers }

TimesSent(r) ==
  SumOver([w \in Workers |->
             Cardinality({ n \in DOMAIN sent[w] :
                             sent[w][n].kind = "data" /\ RowValues(sent[w][n]) = r })],
          Workers)

TimesWritten(r) == Cardinality({ n \in 1 .. idx : Row(n) = r })

\* C20: when write_loop has returned, no message is in flight, idx is the
\* number of results all workers sent, and every result is in rows 1..idx as
\* often as it was sent.
C20_NoResultLost ==
  pc[WRITER_RANK] = "returned" =>
    /\ \A w \in Workers : chan[w] = <<>>
    /\ idx = SumOver([w \in Workers |-> Len(Results(sent[w]))], Workers)
    /\ \A r \in SentRows \cup { Row(n) : n \in 1 .. idx } :
         TimesWritten(r) = TimesSent(r)

C20_Witness ==
  /\ pc[WRITER_RANK] = "returned"
  /\ idx >= 2
  /\ \A w \in Workers : Results(sent[w]) # <<>>
  /\ \E w \in Workers : \E n \in DOMAIN sent[w] : sent[w][n] = NoOp


\* The allocated capacity: the length of the shortest dataset.
Capacity(f) ==
  IF f = <<>> THEN 0
  ELSE CHOOSE c \in { Len(f[n]) : n \in DOMAIN f } :
         \A n \in DOMAIN f : c <= Len(f[n])

\* C21: the output is append-only and written in bounds.  In every step idx
\* does not decrease and stays within the capacity, the rows 1..idx keep their
\* values, a received Result is written at a position below the capacity and
\* advances idx by one, a received None changes nothing of the writer, and a
\* received StopIteration changes only stop_count.
C21_AppendOnlyInBounds ==
  [][ /\ idx <= idx' /\ idx' <= Capacity(f5')
      /\ \A k \in DOMAIN keys : \A n \in 1 .. idx : f5'[k][n] = f5[k][n]
      /\ \A w \in Workers :
           (nRecv' # nRecv /\ chan[w] # <<>> /\ chan'[w] = Tail(chan[w])) =>
             LET m == Head(chan[w])
             IN  /\ m.kind = "data" =>
                      /\ idx' = idx + 1
                      /\ idx < Capacity(f5')
                      /\ [k \in DOMAIN keys |-> f5'[k][idx']] = RowValues(m)
                      /\ stop_count' = stop_count
                 /\ m = NoOp => UNCHANGED <<idx, f5, stop_count>>
                 /\ m = Done => /\ UNCHANGED <<idx, f5>>
                                /\ stop_count' = stop_count + 1 ]_vars

\* The table has grown past its first block and a row has been written in
\* the second one, after a StopIteration was received.
C21_Witness ==
  /\ idx > OUTPUT_BLOCK_SIZE
  /\ Capacity(f5) = 2 * OUTPUT_BLOCK_SIZE
  /\ DoneReceived >= 1
  /\ pc[WRITER_RANK] = "loop"


\* C22: the chan field of every result a worker sends is the channel of the
\* arrival's pick (arrival["chan"]), whichever channel gave the candidate of
\* largest |coefficient|; the two agree only when that candidate's channel is
\* the pick's.
C22_ChanIsPickChannel ==
  [][ \A w \in Workers :
        (pc[w] = "emit" /\ sent'[w] # sent[w]
           /\ sent'[w][Len(sent'[w])].kind = "data") =>
          LET msg == sent'[w][Len(sent'[w])]
              arrival == arrivals[w][aa[w]]
              winner == chans[w][argmax_abs(ccmax[w])]
          IN  /\ Len(sent'[w]) = Len(sent[w]) + 1
              /\ msg.chan = arrival.chan
              /\ \E n \in DOMAIN Picks :
                    /\ Picks[n] = arrival
                    /\ Picks[n].evid \in {msg.dsid[1], msg.dsid[2]}
                    /\ Picks[n].sta = msg.dsid[3]
                    /\ Picks[n].phase = msg.dsid[4]
              /\ (msg.chan = winner) <=> (winner = arrival.chan) ]_vars

\* A result was sent whose chan field is not the channel of the candidate it
\* carries: the best candidate came from another channel than the pick's.
C22_Witness ==
  \E w \in Workers :
    LET e == lastEmit[w] IN
    /\ e.msg.kind = "data"
    /\ Len(e.chans) >= 2
    /\ e.msg.ccmax = e.ccmax[argmax_abs(e.ccmax)]
    /\ e.msg.chan # e.chans[argmax_abs(e.ccmax)]
    /\ sent[w] # <<>> /\ sent[w][Len(sent[w])] = e.msg

====
